---- MODULE Spec2Model ----
(***************************************************************************)
(* Model of github.com/omniscale/go-proj/v2 (src/proj.go): the lifecycle   *)
(* of Proj handles (New, Free, finalizer, NormalizeForVisualization), the  *)
(* batch Transform and the Transformer pair, on top of an abstract native  *)
(* PROJ engine whose heap (contexts, PJ objects) and calls are recorded.   *)
(***************************************************************************)
EXTENDS Integers, Sequences, FiniteSets, TLC

\* ---- bounds of the model ----
MaxHandles == 2
MaxCtx == 2
MaxObj == 3
MaxPts == 1
MaxPaths == 2

\* ---- values ----
\* the Go nil *Proj, and the C NULL pointer
NilProj == 0
NULL == 0
\* unused argument slot of a recorded native call
NA == -1
\* the value the engine stores in a coordinate it could not transform
HUGE_VAL == -1

HandleIds == 1..MaxHandles
CtxIds == 1..MaxCtx
ObjIds == 1..MaxObj

\* last-error codes a context can report (0: no error recorded)
Errnos == 0..1

\* proj_context_errno_string: NULL for code 0 (C.GoString(NULL) is ""),
\* the engine's message otherwise (messages as the tests expect them)
ErrnoString(e) ==
    IF e = 0 THEN "" ELSE "Invalid PROJ string"

\* Go error values: nil, or errors.New(msg)
NilErr == [isNil |-> TRUE, msg |-> ""]
NewError(m) == [isNil |-> FALSE, msg |-> m]

\* definition strings callers pass to New
Inits == {"epsg:4326", " +proj=utm +zone=32 "}
\* codes callers pass to NewEPSG, and fmt.Sprintf("epsg:%d", code)
EPSGCodes == {4326, 999999}
SprintfEPSG(code) == IF code = 4326 THEN "epsg:4326" ELSE "epsg:999999"

\* Coord batches: Go slices, nil or of length 0..MaxPts
Coords == {1}
NilPts == [isNil |-> TRUE, data |-> << >>]
Slice(s) == [isNil |-> FALSE, data |-> s]
Batches == {NilPts} \cup {Slice(s) : s \in UNION {[1..n -> Coords] : n \in 0..MaxPts}}

\* the engine's coordinate operation, a black box: some injective map
NativeTrans(c) == c + 10

\* type Proj struct { p; ctx; normalized }, plus the garbage collector's
\* view of the Go object: "none" (no object in this slot), "reachable",
\* "unreachable" (finalizer pending)
NoHandle == [p |-> NULL, ctx |-> NULL, normalized |-> FALSE, life |-> "none"]

\* type Transformer struct { Src; Dst }, and its zero value Transformer{}
NoTransformer == [Src |-> NilProj, Dst |-> NilProj]

\* a recorded native call: the function, its context, pointer/integer and
\* string arguments, and what it returned
Call(fn, ctx, a, b, s, ret) ==
    [fn |-> fn, ctx |-> ctx, a |-> a, b |-> b, s |-> s, ret |-> ret]

VARIABLES
    handles,      \* HandleIds -> Proj struct and its GC state
    liveCtxs,     \* the native contexts that are allocated
    liveObjs,     \* the native PJ objects that are allocated
    badDestroys,  \* destroy calls on a pointer that was not allocated
    transf,       \* the caller's Transformer value
    crashed,      \* the process died inside a native call
    last          \* the last operation: arguments, result, native calls

\* ---- the search-path registry (legacy generation) ----
\* directories a caller can register and the file names the engine asks for
Dirs == {"a", "b"}
FileNames == {"epsg", "test-epsg"}
\* the ordered path lists a caller passes to SetSearchPaths
PathLists == UNION {[1..n -> Dirs] : n \in 0..MaxPaths}
\* a lookup's result: the full path of a file, or the null result
NotFound == << >>
FullPath(dir, name) == <<dir, name>>

\* a table from file names to results, as a set of <<name, result>>
Names(table) == {e[1] : e \in table}
Get(table, name) == (CHOOSE e \in table : e[1] = name)[2]

VARIABLES
    registry,     \* the process-wide path list and memoization table
    files,        \* the files that exist, as full paths
    finder,       \* the last registry operation and what it returned
    inflight      \* a Transform whose native call is running in the engine

vars == <<handles, liveCtxs, liveObjs, badDestroys, transf, crashed, last,
          registry, files, finder, inflight>>

\* no Transform is inside the engine; otherwise: its arguments, the handles
\* as it read them (p.ctx, p.p, dst.p), and which of the pointers it handed
\* to the engine have been destroyed since
NoCall == [pc |-> "idle", p |-> NilProj, dst |-> NilProj, srcH |-> NoHandle,
           dstH |-> NoHandle, pts |-> NilPts, destroyed |-> {}]

\* the registry before any registration
NoRegistry == [searchPaths |-> << >>, memo |-> {}]

\* SetSearchPaths(paths): the list is replaced, the table cleared
SetSearchPathsKeepsMemo(reg, paths) == [reg EXCEPT !.searchPaths = paths]

SetSearchPaths(reg, paths) == [searchPaths |-> paths, memo |-> {}]

\* the directories of the list, in order, that hold a file of that name
Matches(fs, paths, name) == {i \in DOMAIN paths : FullPath(paths[i], name) \in fs}
FirstMatch(fs, paths, name) ==
    CHOOSE i \in Matches(fs, paths, name) : \A j \in Matches(fs, paths, name) : i <= j

\* a miss of the table: each directory is probed in order until one holds
\* the file
Probe(fs, paths, name) ==
    IF Matches(fs, paths, name) = {}
    THEN [ret |-> NotFound, probed |-> paths]
    ELSE LET i == FirstMatch(fs, paths, name)
         IN [ret |-> FullPath(paths[i], name), probed |-> SubSeq(paths, 1, i)]

\* the lookup callback: the table first, on a miss the directories, and the
\* result (found or not) is memoized
Lookup(reg, fs, name) ==
    IF name \in Names(reg.memo)
    THEN [reg |-> reg, ret |-> Get(reg.memo, name), probed |-> << >>]
    ELSE LET p == Probe(fs, reg.searchPaths, name)
         IN [reg |-> [reg EXCEPT !.memo = @ \cup {<<name, p.ret>>}],
             ret |-> p.ret, probed |-> p.probed]

\* the record of one registry operation; first: what each name resolved to
\* when it was first looked up since the last registration; missed: the
\* names that had resolved to not-found when the last registration was made
NoFinder == [op |-> "init", name |-> "", paths |-> << >>, ret |-> NotFound,
             probed |-> << >>, repeat |-> FALSE, first |-> {}, missed |-> {}]

\* the world the operations work on
World == [handles |-> handles, liveCtxs |-> liveCtxs, liveObjs |-> liveObjs,
          badDestroys |-> badDestroys,
          crashed |-> crashed, calls |-> << >>]

\* the engine's allocator: an address that is not in use
Alloc(live) ==
    CHOOSE a \in 1..(Cardinality(live) + 1) :
        a \notin live /\ \A b \in 1..(a - 1) : b \in live

Log(w, c) == [w EXCEPT !.calls = Append(@, c)]

\* C.proj_destroy(obj): a no-op on NULL
proj_destroy(w, obj) ==
    LET w1 == Log(w, Call("proj_destroy", NA, obj, NA, "", NA))
    IN IF obj = NULL THEN w1
       ELSE IF obj \in w.liveObjs THEN [w1 EXCEPT !.liveObjs = @ \ {obj}]
       ELSE [w1 EXCEPT !.badDestroys = @ + 1]

\* C.proj_context_destroy(ctx)
proj_context_destroy(w, ctx) ==
    LET w1 == Log(w, Call("proj_context_destroy", ctx, NA, NA, "", NA))
    IN IF ctx = NULL THEN w1
       ELSE IF ctx \in w.liveCtxs THEN [w1 EXCEPT !.liveCtxs = @ \ {ctx}]
       ELSE [w1 EXCEPT !.badDestroys = @ + 1]

\* func (p *Proj) Free()
FreeKeepPointers(w, i) ==
    LET h == w.handles[i]
        w1 == IF h.p # NULL THEN proj_destroy(w, h.p) ELSE w
        w2 == IF h.ctx # NULL THEN proj_context_destroy(w1, h.ctx) ELSE w1
    IN w2

FreeClearsFlag(w, i) ==
    LET h == w.handles[i]
        w1 == IF h.p # NULL
              THEN [proj_destroy(w, h.p) EXCEPT !.handles[i].p = NULL]
              ELSE w
        w2 == IF h.ctx # NULL
              THEN [proj_context_destroy(w1, h.ctx) EXCEPT !.handles[i].ctx = NULL]
              ELSE w1
    IN [w2 EXCEPT !.handles[i].normalized = FALSE]

Free(w, i) ==
    LET h == w.handles[i]
        w1 == IF h.p # NULL
              THEN [proj_destroy(w, h.p) EXCEPT !.handles[i].p = NULL]
              ELSE w
        w2 == IF h.ctx # NULL
              THEN [proj_context_destroy(w1, h.ctx) EXCEPT !.handles[i].ctx = NULL]
              ELSE w1
    IN w2

\* the Go allocator: the slot of the next &Proj{...}
FreeSlots(w) == {i \in HandleIds : w.handles[i].life = "none"}
NewSlot(w) == CHOOSE i \in FreeSlots(w) : \A j \in FreeSlots(w) : i <= j

\* what the engine decides inside one New / NormalizeForVisualization /
\* Transform call; ub* are the outcomes of a call that was handed NULL
\* (fields a successful call never reads are fixed, to list each outcome once)
NewNats == {n \in [ctxOk : {TRUE}, createOk : BOOLEAN, errno : Errnos] :
                n.createOk => n.errno = 0}
NormNats == {n \in [normOk : BOOLEAN, errno : Errnos, ub : {"crash", "null"}] :
                /\ n.normOk => n.errno = 0
                /\ n.ub = "crash" => n.normOk}
TransNats == {n \in [trOk : BOOLEAN, r : {0, 1}, errno : Errnos,
                     ubCreate : {"crash", "null"}, ubTrans : {"crash", "zero", "fail"}] :
                /\ (n.trOk /\ n.r = 0) => n.errno = 0
                /\ n.trOk => (n.ubCreate = "crash" /\ n.ubTrans = "crash")
                /\ ~n.trOk => (n.r = 0 /\ n.errno = 1)
                /\ n.ubCreate = "crash" => n.ubTrans = "crash"}
\* New in a process that has run out of native memory: proj_context_create
\* returns NULL, and the calls handed that NULL fall back on the engine's
\* default context
NewNatsNoCtx == {n \in [ctxOk : {FALSE}, createOk : BOOLEAN, errno : Errnos] :
                    n.createOk => n.errno = 0}
\* the outcome of a call in which the engine decides nothing
NatNone == [trOk |-> TRUE, r |-> 0, errno |-> 0,
            ubCreate |-> "crash", ubTrans |-> "crash"]
NewNatNone == [ctxOk |-> TRUE, createOk |-> TRUE, errno |-> 0]

\* errors.New(C.GoString(C.proj_context_errno_string(ctx, C.proj_context_errno(ctx))))
ErrnoError(w, ctx, errno) ==
    [w |-> Log(Log(w, Call("proj_context_errno", ctx, NA, NA, "", errno)),
               Call("proj_context_errno_string", ctx, errno, NA, "", NA)),
     err |-> NewError(ErrnoString(errno))]

\* func New(init string) (*Proj, error)
New(w, init, nat) ==
    LET ctx == IF nat.ctxOk THEN Alloc(w.liveCtxs) ELSE NULL
        w1 == Log([w EXCEPT !.liveCtxs = IF nat.ctxOk THEN @ \cup {ctx} ELSE @],
                  Call("proj_context_create", NA, NA, NA, "", ctx))
        w2 == Log(w1, Call("proj_log_level", ctx, NA, NA, "", NA))
        proj == IF nat.createOk THEN Alloc(w.liveObjs) ELSE NULL
        w3 == Log(w2, Call("proj_create", ctx, NA, NA, init, proj))
    IN IF proj = NULL
       THEN LET e == ErrnoError(w3, ctx, nat.errno)
            IN [w |-> e.w, ret |-> NilProj, err |-> e.err, outcome |-> "return"]
       ELSE LET i == NewSlot(w3)
            IN [w |-> [w3 EXCEPT !.liveObjs = @ \cup {proj},
                                 !.handles[i] = [p |-> proj, ctx |-> ctx,
                                                 normalized |-> FALSE,
                                                 life |-> "reachable"]],
                ret |-> i, err |-> NilErr, outcome |-> "return"]

\* func NewEPSG(epsgCode int) (*Proj, error)
NewEPSG(w, epsgCode, nat) == New(w, SprintfEPSG(epsgCode), nat)

\* C.proj_normalize_for_visualization(ctx, obj): a new PJ, or NULL; handed a
\* NULL obj it dereferences it (crash) or reports failure
NormalizeResult(w, obj, nat) ==
    IF obj = NULL THEN [crash |-> nat.ub = "crash", pj |-> NULL]
    ELSE [crash |-> FALSE, pj |-> IF nat.normOk THEN Alloc(w.liveObjs) ELSE NULL]

\* NormalizeForVisualization when the engine returned NULL: the error of
\* the context's last error code, the handle untouched
NormalizeFailedSetsFlag(w, i, nat) ==
    LET e == ErrnoError(w, w.handles[i].ctx, nat.errno)
    IN [w |-> [e.w EXCEPT !.handles[i].normalized = TRUE],
        err |-> e.err, outcome |-> "return"]

NormalizeFailed(w, i, nat) ==
    LET e == ErrnoError(w, w.handles[i].ctx, nat.errno)
    IN [w |-> e.w, err |-> e.err, outcome |-> "return"]

\* NormalizeForVisualization when the engine returned normProj: the old
\* object is destroyed, the new one and the flag are stored
NormalizeReplaceKeepsOld(w, i, normProj) ==
    [w |-> [w EXCEPT !.handles[i].p = normProj, !.handles[i].normalized = TRUE],
     err |-> NilErr, outcome |-> "return"]

NormalizeReplace(w, i, normProj) ==
    LET w2 == proj_destroy(w, w.handles[i].p)
    IN [w |-> [w2 EXCEPT !.handles[i].p = normProj, !.handles[i].normalized = TRUE],
        err |-> NilErr, outcome |-> "return"]

\* NormalizeForVisualization past the normalized check
NormalizeNative(w, i, nat) ==
    LET h == w.handles[i]
        native == NormalizeResult(w, h.p, nat)
        normProj == native.pj
        w1 == Log(w, Call("proj_normalize_for_visualization", h.ctx, h.p, NA, "",
                          IF native.crash THEN NA ELSE normProj))
    IN IF native.crash
       THEN [w |-> [w1 EXCEPT !.crashed = TRUE], err |-> NilErr, outcome |-> "crash"]
       ELSE IF normProj = NULL
       THEN NormalizeFailed(w1, i, nat)
       ELSE NormalizeReplace([w1 EXCEPT !.liveObjs = @ \cup {normProj}], i, normProj)

\* func (p *Proj) NormalizeForVisualization() error
NormalizeIgnoringFlag(w, i, nat) == NormalizeNative(w, i, nat)

NormalizeForVisualization(w, i, nat) ==
    IF w.handles[i].normalized
    THEN [w |-> w, err |-> NilErr, outcome |-> "return"]
    ELSE NormalizeNative(w, i, nat)

\* what proj_trans_array leaves in the buffer: every coordinate transformed,
\* the one it failed on (here the last one) set to HUGE_VAL
TransArray(data, r) ==
    [k \in 1..Len(data) |->
        IF r # 0 /\ k = Len(data) THEN HUGE_VAL ELSE NativeTrans(data[k])]

\* the tail of Transform, from C.proj_trans_array on; handed a NULL
\* transformation the engine crashes, or leaves the buffer alone and reports
\* either status
TransformArrayErrnoText(w, h, tr, pts, nat) ==
    LET n == Len(pts.data)
        r == IF tr = NULL THEN (IF nat.ubTrans = "zero" THEN 0 ELSE 1) ELSE nat.r
        out == IF tr = NULL THEN pts ELSE Slice(TransArray(pts.data, r))
    IN IF tr = NULL /\ nat.ubTrans = "crash"
       THEN [w |-> [Log(w, Call("proj_trans_array", NA, tr, n, "", NA))
                        EXCEPT !.crashed = TRUE],
             err |-> NilErr, outcome |-> "crash", pts |-> pts]
       ELSE LET w1 == Log(w, Call("proj_trans_array", NA, tr, n, "", r))
                w2 == Log(w1, Call("proj_context_errno", h.ctx, NA, NA, "", nat.errno))
            IN IF r = 0
               THEN [w |-> w1, err |-> NilErr, outcome |-> "return", pts |-> out]
               ELSE [w |-> Log(w2, Call("proj_context_errno_string", h.ctx,
                                        nat.errno, NA, "", NA)),
                     err |-> NewError(ErrnoString(nat.errno)),
                     outcome |-> "return", pts |-> out]

TransformArray(w, h, tr, pts, nat) ==
    LET n == Len(pts.data)
        r == IF tr = NULL THEN (IF nat.ubTrans = "zero" THEN 0 ELSE 1) ELSE nat.r
        out == IF tr = NULL THEN pts ELSE Slice(TransArray(pts.data, r))
    IN IF tr = NULL /\ nat.ubTrans = "crash"
       THEN [w |-> [Log(w, Call("proj_trans_array", NA, tr, n, "", NA))
                        EXCEPT !.crashed = TRUE],
             err |-> NilErr, outcome |-> "crash", pts |-> pts]
       ELSE LET w1 == Log(w, Call("proj_trans_array", NA, tr, n, "", r))
                w2 == Log(w1, Call("proj_context_errno", h.ctx, NA, NA, "", nat.errno))
            IN IF r = 0
               THEN [w |-> w1, err |-> NilErr, outcome |-> "return", pts |-> out]
               ELSE IF nat.errno = 0
               THEN [w |-> w2, err |-> NewError("unknown error"),
                     outcome |-> "return", pts |-> out]
               ELSE [w |-> Log(w2, Call("proj_context_errno_string", h.ctx,
                                        nat.errno, NA, "", NA)),
                     err |-> NewError(ErrnoString(nat.errno)),
                     outcome |-> "return", pts |-> out]

\* Transform once both handles and the batch are non-nil: the crs-to-crs
\* object is created (handed a NULL PJ the engine crashes or returns NULL),
\* then &pts[0] is taken, then the batch is transformed
TransformCrs(w, p, dst, pts, nat) ==
    LET h == w.handles[p]
        d == w.handles[dst]
        nullArg == h.p = NULL \/ d.p = NULL
        made == ~nullArg /\ nat.trOk
        tr == IF made THEN Alloc(w.liveObjs) ELSE NULL
        w1 == Log(w, Call("proj_create_crs_to_crs_from_pj", h.ctx, h.p, d.p, "", tr))
        w2 == [w1 EXCEPT !.liveObjs = IF made THEN @ \cup {tr} ELSE @]
    IN IF nullArg /\ nat.ubCreate = "crash"
       THEN [w |-> [Log(w, Call("proj_create_crs_to_crs_from_pj", h.ctx, h.p, d.p,
                                "", NA)) EXCEPT !.crashed = TRUE],
             err |-> NilErr, outcome |-> "crash", pts |-> pts]
       ELSE IF Len(pts.data) = 0
       \* &pts[0] on an empty slice: index out of range
       THEN [w |-> w2, err |-> NilErr, outcome |-> "panic", pts |-> pts]
       ELSE TransformArray(w2, h, tr, pts, nat)

\* func (p *Proj) Transform(dst *Proj, pts []Coord) error
TransformDstFirst(w, p, dst, pts, nat) ==
    IF dst = NilProj
    THEN [w |-> w, err |-> NewError("missing/invalid dst projection"),
          outcome |-> "return", pts |-> pts]
    ELSE IF p = NilProj
    THEN [w |-> w, err |-> NewError("missing/invalid projection"),
          outcome |-> "return", pts |-> pts]
    ELSE IF pts.isNil
    THEN [w |-> w, err |-> NilErr, outcome |-> "return", pts |-> pts]
    ELSE TransformCrs(w, p, dst, pts, nat)

Transform(w, p, dst, pts, nat) ==
    IF p = NilProj
    THEN [w |-> w, err |-> NewError("missing/invalid projection"),
          outcome |-> "return", pts |-> pts]
    ELSE IF dst = NilProj
    THEN [w |-> w, err |-> NewError("missing/invalid dst projection"),
          outcome |-> "return", pts |-> pts]
    ELSE IF pts.isNil
    THEN [w |-> w, err |-> NilErr, outcome |-> "return", pts |-> pts]
    ELSE TransformCrs(w, p, dst, pts, nat)

\* func (t *Transformer) Transform(pts []Coord) error
TransformerTransform(w, t, pts, nat) == Transform(w, t.Src, t.Dst, pts, nat)

\* func (t *Transformer) NormalizeForVisualization() error
TransformerNormalizeBoth(w, t, natSrc, natDst) ==
    LET s == NormalizeForVisualization(w, t.Src, natSrc)
    IN IF s.outcome # "return"
       THEN s
       ELSE NormalizeForVisualization(s.w, t.Dst, natDst)

TransformerNormalizeForVisualization(w, t, natSrc, natDst) ==
    LET s == NormalizeForVisualization(w, t.Src, natSrc)
    IN IF s.outcome # "return" \/ ~s.err.isNil
       THEN s
       ELSE NormalizeForVisualization(s.w, t.Dst, natDst)

\* func NewTransformer(initSrc, initDst string) (Transformer, error)

NewTransformer(w, initSrc, initDst, natSrc, natDst) ==
    LET s == New(w, initSrc, natSrc)
    IN IF ~s.err.isNil
       THEN [w |-> s.w, t |-> NoTransformer, err |-> s.err, outcome |-> "return", made |-> <<>>]
       ELSE LET d == New(s.w, initDst, natDst)
            IN IF ~d.err.isNil
               \* src is dropped here: only its finalizer will free it
               THEN [w |-> [d.w EXCEPT !.handles[s.ret].life = "unreachable"],
                     t |-> NoTransformer, err |-> d.err, outcome |-> "return",
                     made |-> <<s.ret>>]
               ELSE [w |-> d.w, t |-> [Src |-> s.ret, Dst |-> d.ret],
                     err |-> NilErr, outcome |-> "return", made |-> <<s.ret, d.ret>>]

\* func NewEPSGTransformer(srcEPSG, dstEPSG int) (Transformer, error)
NewEPSGTransformer(w, srcEPSG, dstEPSG, natSrc, natDst) ==
    LET s == NewEPSG(w, srcEPSG, natSrc)
    IN IF ~s.err.isNil
       THEN [w |-> s.w, t |-> NoTransformer, err |-> s.err, outcome |-> "return", made |-> <<>>]
       ELSE LET d == NewEPSG(s.w, dstEPSG, natDst)
            IN IF ~d.err.isNil
               THEN [w |-> [d.w EXCEPT !.handles[s.ret].life = "unreachable"],
                     t |-> NoTransformer, err |-> d.err, outcome |-> "return",
                     made |-> <<s.ret>>]
               ELSE [w |-> d.w, t |-> [Src |-> s.ret, Dst |-> d.ret],
                     err |-> NilErr, outcome |-> "return", made |-> <<s.ret, d.ret>>]

\* ---- the state machine ----
Reachable == {i \in HandleIds : handles[i].life = "reachable"}

\* the record of one operation: its arguments, the state before it, the
\* result and the native calls it made
Op(name, p, dst, ptsIn, res, ret, ptsOut, made) ==
    [op |-> name, p |-> p, dst |-> dst, ptsIn |-> ptsIn, ptsOut |-> ptsOut,
     ret |-> ret, err |-> res.err, outcome |-> res.outcome,
     calls |-> res.w.calls, made |-> made, init |-> "",
     pre |-> handles, preCtxs |-> liveCtxs, preObjs |-> liveObjs,
     post |-> res.w.handles]

CommitHeap(w) ==
    /\ handles' = w.handles
    /\ liveCtxs' = w.liveCtxs
    /\ liveObjs' = w.liveObjs
    /\ badDestroys' = w.badDestroys
    /\ crashed' = w.crashed

Commit(w) ==
    /\ CommitHeap(w)
    /\ UNCHANGED <<registry, files, finder, inflight>>

\* an operation on a handle that the Go runtime stops: a nil *Proj is
\* dereferenced
Panicked(w) == [w |-> w, err |-> NilErr, outcome |-> "panic"]

Returned(w) == [w |-> w, err |-> NilErr, outcome |-> "return"]

Init ==
    /\ handles = [i \in HandleIds |-> NoHandle]
    /\ liveCtxs = {}
    /\ liveObjs = {}
    /\ badDestroys = 0
    /\ transf = NoTransformer
    /\ crashed = FALSE
    /\ last = Op("init", NilProj, NilProj, NilPts, Returned(World), NilProj, NilPts, <<>>)
    /\ registry = NoRegistry
    /\ files = {}
    /\ finder = NoFinder
    /\ inflight = NoCall

\* the bounded heaps: k handle slots are free before the operation, and its
\* result w fits
Slots(k) == Cardinality(FreeSlots(World)) >= k
Fits(w) == w.liveCtxs \subseteq CtxIds /\ w.liveObjs \subseteq ObjIds

DoNew ==
    \E init \in Inits, nat \in NewNats :
        /\ ~crashed /\ Slots(1)
        /\ LET res == New(World, init, nat)
           IN /\ Fits(res.w)
              /\ Commit(res.w)
              /\ last' = [Op("New", NilProj, NilProj, NilPts, res, res.ret, NilPts, <<>>)
                              EXCEPT !.init = init]
        /\ UNCHANGED transf

\* New when the context cannot be allocated
DoNewNoContext ==
    \E init \in Inits, nat \in NewNatsNoCtx :
        /\ ~crashed /\ Slots(1)
        /\ LET res == New(World, init, nat)
           IN /\ Fits(res.w)
              /\ Commit(res.w)
              /\ last' = [Op("New", NilProj, NilProj, NilPts, res, res.ret, NilPts, <<>>)
                              EXCEPT !.init = init]
        /\ UNCHANGED transf

DoNewEPSG ==
    \E code \in EPSGCodes, nat \in NewNats :
        /\ ~crashed /\ Slots(1)
        /\ LET res == NewEPSG(World, code, nat)
           IN /\ Fits(res.w)
              /\ Commit(res.w)
              /\ last' = [Op("NewEPSG", NilProj, NilProj, NilPts, res, res.ret, NilPts, <<>>)
                              EXCEPT !.init = SprintfEPSG(code)]
        /\ UNCHANGED transf

DoFree ==
    \E i \in Reachable :
        /\ ~crashed
        /\ LET res == Returned(Free(World, i))
           IN /\ Commit(res.w)
              /\ last' = Op("Free", i, NilProj, NilPts, res, NilProj, NilPts, <<>>)
        /\ UNCHANGED transf

\* func free(p *Proj), run once by the garbage collector on a handle the
\* caller holds no reference to any more (a Transformer holding it is
\* dropped with it); the handle's memory is then reclaimed
DoFinalizer ==
    \E i \in HandleIds :
        /\ ~crashed
        /\ handles[i].life # "none"
        /\ LET res == Returned(Free(World, i))
           IN /\ Commit([res.w EXCEPT !.handles[i] = NoHandle])
              /\ last' = Op("finalizer", i, NilProj, NilPts, res, NilProj, NilPts, <<>>)
        /\ transf' = IF i \in {transf.Src, transf.Dst} THEN NoTransformer ELSE transf

DoNormalizeForVisualization ==
    \E i \in Reachable, nat \in NormNats :
        /\ ~crashed
        /\ LET res == NormalizeForVisualization(World, i, nat)
           IN /\ Fits(res.w)
              /\ Commit(res.w)
              /\ last' = Op("NormalizeForVisualization", i, NilProj, NilPts, res,
                            NilProj, NilPts, <<>>)
        /\ UNCHANGED transf

\* the engine has a say only when Transform reaches a native call
TransNatsFor(p, dst, pts) ==
    IF p = NilProj \/ dst = NilProj \/ pts.isNil THEN {NatNone}
    ELSE TransNats

DoTransform ==
    \E p \in Reachable \cup {NilProj}, dst \in Reachable \cup {NilProj}, pts \in Batches :
      \E nat \in TransNatsFor(p, dst, pts) :
        /\ ~crashed
        /\ LET res == Transform(World, p, dst, pts, nat)
           IN /\ Fits(res.w)
              /\ Commit(res.w)
              /\ last' = Op("Transform", p, dst, pts, res, NilProj, res.pts, <<>>)
        /\ UNCHANGED transf

DoTransformerTransform ==
    \E pts \in Batches :
      \E nat \in TransNatsFor(transf.Src, transf.Dst, pts) :
        /\ ~crashed
        /\ LET res == TransformerTransform(World, transf, pts, nat)
           IN /\ Fits(res.w)
              /\ Commit(res.w)
              /\ last' = Op("Transformer.Transform", transf.Src, transf.Dst, pts, res,
                            NilProj, res.pts, <<>>)
        /\ UNCHANGED transf

DoTransformerNormalizeForVisualization ==
    \E natSrc \in NormNats :
      \E natDst \in NormNats :
        /\ ~crashed
        /\ LET res == IF transf.Src = NilProj
                      THEN Panicked(World)
                      ELSE TransformerNormalizeForVisualization(World, transf, natSrc, natDst)
           IN /\ Fits(res.w)
              /\ Commit(res.w)
              /\ last' = Op("Transformer.NormalizeForVisualization", transf.Src,
                            transf.Dst, NilPts, res, NilProj, NilPts, <<>>)
        /\ UNCHANGED transf

DoNewTransformer ==
    \E initSrc \in Inits, initDst \in Inits, natSrc \in NewNats :
      \E natDst \in (IF natSrc.createOk THEN NewNats ELSE {NewNatNone}) :
        /\ ~crashed /\ Slots(2)
        /\ LET res == NewTransformer(World, initSrc, initDst, natSrc, natDst)
           IN /\ Fits(res.w)
              /\ Commit(res.w)
              /\ transf' = res.t
              /\ last' = Op("NewTransformer", res.t.Src, res.t.Dst, NilPts,
                            res, NilProj, NilPts, res.made)

DoNewEPSGTransformer ==
    \E srcEPSG \in EPSGCodes, dstEPSG \in EPSGCodes, natSrc \in NewNats :
      \E natDst \in (IF natSrc.createOk THEN NewNats ELSE {NewNatNone}) :
        /\ ~crashed /\ Slots(2)
        /\ LET res == NewEPSGTransformer(World, srcEPSG, dstEPSG, natSrc, natDst)
           IN /\ Fits(res.w)
              /\ Commit(res.w)
              /\ transf' = res.t
              /\ last' = Op("NewEPSGTransformer", res.t.Src, res.t.Dst, NilPts,
                            res, NilProj, NilPts, res.made)

\* the handles and the native heap, which the registry operations leave alone
handleVars == <<handles, liveCtxs, liveObjs, badDestroys, transf, crashed, last,
                inflight>>

\* ---- Transform and the finalizer side by side ----
\* Transform from its entry to the point where the engine is running
\* proj_create_crs_to_crs_from_pj on the pointers read from p and dst. p is
\* read again after the native calls (p.ctx), dst is not: when the call is
\* the caller's last use of dst, dst is unreachable from here on
DoTransformBegin ==
    \E p \in Reachable, dst \in Reachable, pts \in Batches, lastUse \in BOOLEAN :
        /\ ~crashed
        /\ inflight.pc = "idle"
        /\ ~pts.isNil
        /\ inflight' = [pc |-> "native", p |-> p, dst |-> dst, srcH |-> handles[p],
                        dstH |-> handles[dst], pts |-> pts, destroyed |-> {}]
        /\ handles' = IF lastUse /\ dst # p
                      THEN [handles EXCEPT ![dst].life = "unreachable"]
                      ELSE handles
        /\ UNCHANGED <<liveCtxs, liveObjs, badDestroys, transf, crashed, last,
                       registry, files, finder>>

\* the pointers of handle h that the running native call was handed
HandedPointers(h) ==
    {x \in {"src", "dst"} :
        /\ h.p # NULL
        /\ h.p = (IF x = "src" THEN inflight.srcH.p ELSE inflight.dstH.p)}
    \cup {x \in {"ctx"} : h.ctx # NULL /\ h.ctx = inflight.srcH.ctx}

\* the finalizer goroutine runs free on an unreachable handle while the
\* Transform is inside the engine
DoFinalizerDuringCall ==
    \E i \in HandleIds :
        /\ ~crashed
        /\ inflight.pc = "native"
        /\ handles[i].life = "unreachable"
        /\ LET res == Returned(Free(World, i))
           IN /\ CommitHeap([res.w EXCEPT !.handles[i] = NoHandle])
              /\ last' = Op("finalizer", i, NilProj, NilPts, res, NilProj, NilPts, <<>>)
        /\ inflight' = [inflight EXCEPT !.destroyed = @ \cup HandedPointers(handles[i])]
        /\ UNCHANGED <<transf, registry, files, finder>>

\* the native calls return and Transform finishes, on the pointers it read
\* at its start; a call whose object was destroyed under it has crashed, or
\* has run on the freed memory as if nothing had happened
DoTransformEnd ==
    \E nat \in TransNats, ub \in {"crash", "run"} :
        /\ ~crashed
        /\ inflight.pc = "native"
        /\ inflight.destroyed = {} => ub = "run"
        /\ LET w0 == [World EXCEPT !.handles =
                         [i \in HandleIds |->
                             IF i = inflight.p THEN inflight.srcH
                             ELSE IF i = inflight.dst THEN inflight.dstH
                             ELSE handles[i]]]
               run == Transform(w0, inflight.p, inflight.dst, inflight.pts, nat)
               res == IF ub = "crash"
                      THEN [w |-> [World EXCEPT !.crashed = TRUE], err |-> NilErr,
                            outcome |-> "crash", pts |-> inflight.pts]
                      ELSE [run EXCEPT !.w.handles = handles]
           IN /\ Fits(res.w)
              /\ CommitHeap(res.w)
              /\ last' = Op("Transform", inflight.p, inflight.dst, inflight.pts, res,
                            NilProj, res.pts, <<>>)
        /\ inflight' = NoCall
        /\ UNCHANGED <<transf, registry, files, finder>>

DoSetSearchPaths ==
    \E paths \in PathLists :
        /\ registry' = SetSearchPaths(registry, paths)
        /\ finder' = [op |-> "SetSearchPaths", name |-> "", paths |-> paths,
                      ret |-> NotFound, probed |-> << >>, repeat |-> FALSE,
                      first |-> {},
                      missed |-> {n \in Names(finder.first) :
                                     Get(finder.first, n) = NotFound}]
        /\ UNCHANGED <<handleVars, files>>

\* the engine calls back for an auxiliary file
DoLookup ==
    \E name \in FileNames :
        LET res == Lookup(registry, files, name)
        IN /\ registry' = res.reg
           /\ finder' = [op |-> "lookup", name |-> name, paths |-> << >>,
                         ret |-> res.ret, probed |-> res.probed,
                         repeat |-> name \in Names(finder.first),
                         first |-> IF name \in Names(finder.first) THEN finder.first
                                   ELSE finder.first \cup {<<name, res.ret>>},
                         missed |-> finder.missed]
           /\ UNCHANGED <<handleVars, files>>

\* the environment: a file appears in, or disappears from, a directory
DoFileChange ==
    \E dir \in Dirs, name \in FileNames :
        /\ files' = IF FullPath(dir, name) \in files
                    THEN files \ {FullPath(dir, name)}
                    ELSE files \cup {FullPath(dir, name)}
        /\ finder' = [finder EXCEPT !.op = "change", !.name = "", !.paths = << >>,
                                    !.ret = NotFound, !.probed = << >>,
                                    !.repeat = FALSE]
        /\ UNCHANGED <<handleVars, registry>>

Next ==
    \/ DoTransformBegin
    \/ DoFinalizerDuringCall
    \/ DoTransformEnd
    \/ DoSetSearchPaths
    \/ DoLookup
    \/ DoFileChange
    \/ DoNew
    \/ DoNewNoContext
    \/ DoNewEPSG
    \/ DoFree
    \/ DoFinalizer
    \/ DoNormalizeForVisualization
    \/ DoTransform
    \/ DoTransformerTransform
    \/ DoTransformerNormalizeForVisualization
    \/ DoNewTransformer
    \/ DoNewEPSGTransformer

Spec == Init /\ [][Next]_vars

\* a client that only creates, normalizes and releases handles
NextHandle ==
    \/ DoNew
    \/ DoNewEPSG
    \/ DoFree
    \/ DoFinalizer
    \/ DoNormalizeForVisualization

SpecHandle == Init /\ [][NextHandle]_vars

\* a client that transforms batches between its handles
NextTransform ==
    \/ DoNew
    \/ DoTransform

SpecTransform == Init /\ [][NextTransform]_vars

\* a client that keeps using handles it has released
NextReleased ==
    \/ DoNew
    \/ DoNormalizeForVisualization
    \/ DoFree
    \/ DoTransform

SpecReleased == Init /\ [][NextReleased]_vars

\* a client that builds and normalizes a Transformer pair
NextTransformer ==
    \/ DoNewTransformer
    \/ DoNewEPSGTransformer
    \/ DoTransformerNormalizeForVisualization
    \/ DoFree
    \/ DoFinalizer

SpecTransformer == Init /\ [][NextTransformer]_vars

\* a client that creates and releases handles while native memory runs out
NextAlloc ==
    \/ DoNew
    \/ DoNewNoContext
    \/ DoNormalizeForVisualization
    \/ DoFree
    \/ DoFinalizer

SpecAlloc == Init /\ [][NextAlloc]_vars

\* a client that uses several handles side by side
NextShared ==
    \/ DoNew
    \/ DoNewNoContext
    \/ DoNormalizeForVisualization
    \/ DoTransform

SpecShared == Init /\ [][NextShared]_vars

\* a client that normalizes, uses and releases its handles
NextFlag ==
    \/ DoNew
    \/ DoNormalizeForVisualization
    \/ DoTransform
    \/ DoFree
    \/ DoFinalizer

SpecFlag == Init /\ [][NextFlag]_vars

\* the engine looking up auxiliary files while the caller registers paths
NextSearch ==
    \/ DoSetSearchPaths
    \/ DoLookup
    \/ DoFileChange

SpecSearch == Init /\ [][NextSearch]_vars

\* a client whose Transform calls run while the garbage collector finalizes
NextRace ==
    \/ DoNew
    \/ DoTransformBegin
    \/ DoFinalizerDuringCall
    \/ DoTransformEnd

SpecRace == Init /\ [][NextRace]_vars

TypeOK ==
    /\ liveCtxs \subseteq CtxIds
    /\ liveObjs \subseteq ObjIds
    /\ badDestroys \in Nat
    /\ crashed \in BOOLEAN
    /\ \A i \in HandleIds :
        /\ handles[i].p \in 0..MaxObj
        /\ handles[i].ctx \in 0..MaxCtx
        /\ handles[i].life \in {"none", "reachable", "unreachable"}

\* ---- the claims ----
\* the native calls of the last operation, by function
CallsOf(fn) == {k \in DOMAIN last.calls : last.calls[k].fn = fn}
DestroyCalls == CallsOf("proj_destroy") \cup CallsOf("proj_context_destroy")
\* the handles of the last operation as they were when it started
PreP == last.pre[last.p]
PreDst == last.pre[last.dst]
Released(h) == h.life # "none" /\ h.p = NULL /\ h.ctx = NULL
OwnedObjs == {handles[i].p : i \in HandleIds} \ {NULL}

\* C1: release is idempotent. No native object or context is ever destroyed
\* twice; a Free (explicit or by the finalizer) destroys only what the handle
\* still owned, each at most once, clears both pointers and returns; a Free
\* on a handle that was already released makes no native call at all.
C1_ReleaseIdempotent ==
    /\ badDestroys = 0
    /\ last.op \in {"Free", "finalizer"} =>
        /\ last.outcome = "return"
        /\ handles[last.p].p = NULL /\ handles[last.p].ctx = NULL
        /\ \A k \in DOMAIN last.calls : k \in DestroyCalls
        /\ Cardinality(CallsOf("proj_destroy")) = (IF PreP.p = NULL THEN 0 ELSE 1)
        /\ Cardinality(CallsOf("proj_context_destroy")) = (IF PreP.ctx = NULL THEN 0 ELSE 1)
        /\ \A k \in CallsOf("proj_destroy") :
              last.calls[k].a = PreP.p /\ PreP.p \in last.preObjs
        /\ \A k \in CallsOf("proj_context_destroy") :
              last.calls[k].ctx = PreP.ctx /\ PreP.ctx \in last.preCtxs
        /\ Released(PreP) => (last.calls = << >> /\ liveObjs = last.preObjs
                              /\ liveCtxs = last.preCtxs)

\* the finalizer runs on a handle the caller had already released
C1_Witness ==
    /\ last.op = "finalizer"
    /\ Released(PreP)
    /\ last.calls = << >>

\* C3: a failed New releases the context it allocated: the live native
\* contexts after it are those before it.
C3_FailedNewReleasesContext ==
    (last.op \in {"New", "NewEPSG"} /\ ~last.err.isNil)
        => (last.ret = NilProj /\ liveCtxs = last.preCtxs)

\* C6: a successful normalization of an unnormalized handle destroys the
\* replaced object exactly once, stores the new object and sets the flag; so
\* the live native objects are exactly the ones the handles own, one each.
C6_NormalizeReplacesObject ==
    /\ badDestroys = 0
    /\ liveObjs = OwnedObjs
    /\ \A i, j \in HandleIds :
          (i # j /\ handles[i].p # NULL) => handles[i].p # handles[j].p
    /\ (last.op = "NormalizeForVisualization" /\ last.outcome = "return"
            /\ last.err.isNil /\ ~PreP.normalized) =>
        /\ handles[last.p].normalized
        /\ handles[last.p].p \in liveObjs \ last.preObjs
        /\ PreP.p \notin liveObjs
        /\ liveObjs = (last.preObjs \ {PreP.p}) \cup {handles[last.p].p}
        /\ Cardinality(CallsOf("proj_destroy")) = 1
        /\ \A k \in CallsOf("proj_destroy") : last.calls[k].a = PreP.p
        /\ \A k \in CallsOf("proj_normalize_for_visualization") :
              last.calls[k].ret = handles[last.p].p

C6_Witness ==
    /\ last.op = "NormalizeForVisualization"
    /\ last.err.isNil
    /\ ~PreP.normalized /\ PreP.p # NULL
    /\ handles[last.p].normalized
    /\ Cardinality(OwnedObjs) = 2

\* C7: when the native normalize call returns NULL, NormalizeForVisualization
\* returns the error of the context's last error code and leaves the handle
\* and the native heap as they were: same pointers, flag still false, nothing
\* destroyed.
C7_NormalizeFailureKeepsHandle ==
    (last.op = "NormalizeForVisualization" /\ last.outcome = "return"
        /\ \E k \in CallsOf("proj_normalize_for_visualization") :
              last.calls[k].ret = NULL) =>
        /\ ~last.err.isNil
        /\ \E k \in CallsOf("proj_context_errno") :
              last.err = NewError(ErrnoString(last.calls[k].ret))
        /\ handles = last.pre
        /\ ~handles[last.p].normalized
        /\ DestroyCalls = {}
        /\ liveObjs = last.preObjs
        /\ liveCtxs = last.preCtxs

C7_Witness ==
    /\ last.op = "NormalizeForVisualization"
    /\ PreP.p # NULL
    /\ ~last.err.isNil
    /\ \E k \in CallsOf("proj_normalize_for_visualization") :
          last.calls[k].a = PreP.p /\ last.calls[k].ret = NULL

\* C8: NormalizeForVisualization on a handle whose normalized flag is set
\* returns nil without any native call and changes nothing.
C8_NormalizeIdempotent ==
    (last.op = "NormalizeForVisualization" /\ PreP.normalized) =>
        /\ last.outcome = "return"
        /\ last.err.isNil
        /\ last.calls = << >>
        /\ handles = last.pre
        /\ liveObjs = last.preObjs
        /\ liveCtxs = last.preCtxs

C8_Witness ==
    /\ last.op = "NormalizeForVisualization"
    /\ PreP.normalized /\ PreP.p # NULL
    /\ last.err.isNil

\* a native call of the last operation received a NULL context or object
NullHanded ==
    \E k \in DOMAIN last.calls :
        \/ last.calls[k].ctx = NULL
        \/ last.calls[k].a = NULL
        \/ last.calls[k].b = NULL
\* the last operation was applied to a handle that had been released
OnReleased ==
    \/ last.op = "NormalizeForVisualization" /\ Released(PreP)
    \/ /\ last.op = "Transform"
       /\ last.p # NilProj /\ last.dst # NilProj
       /\ Released(PreP) \/ Released(PreDst)

\* C2: every operation on a released handle (Transform with it as source or
\* as destination, NormalizeForVisualization) returns an error and hands the
\* engine no NULL pointer, whether or not the handle had been normalized.
C2_ReleasedHandleFailsCleanly ==
    OnReleased => (last.outcome = "return" /\ ~last.err.isNil /\ ~NullHanded)

\* C4: Transform between two live handles with a nil batch or with an empty
\* batch returns nil, makes no native call and leaves handles, heap and
\* batch as they were.
C4_EmptyBatchIsNoOp ==
    (last.op = "Transform" /\ last.p # NilProj /\ last.dst # NilProj
        /\ PreP.p # NULL /\ PreDst.p # NULL
        /\ (last.ptsIn.isNil \/ Len(last.ptsIn.data) = 0)) =>
        /\ last.outcome = "return"
        /\ last.err.isNil
        /\ last.calls = << >>
        /\ handles = last.pre
        /\ liveObjs = last.preObjs
        /\ liveCtxs = last.preCtxs
        /\ last.ptsOut = last.ptsIn

\* C5: Transform with a nil source returns the error "missing/invalid
\* projection" (also when the destination is nil too: the source is checked
\* first), with a nil destination the different error "missing/invalid dst
\* projection"; in both cases no native call is made and the batch, the
\* handles and the heap are left as they were.
C5_MissingHandleRejected ==
    (last.op = "Transform" /\ (last.p = NilProj \/ last.dst = NilProj)) =>
        /\ last.outcome = "return"
        /\ ~last.err.isNil
        /\ last.p = NilProj => last.err.msg = "missing/invalid projection"
        /\ last.p # NilProj => last.err.msg = "missing/invalid dst projection"
        /\ last.calls = << >>
        /\ last.ptsOut = last.ptsIn
        /\ handles = last.pre
        /\ liveObjs = last.preObjs
        /\ liveCtxs = last.preCtxs

\* both handles are nil and the batch is not
C5_Witness ==
    /\ last.op = "Transform"
    /\ last.p = NilProj /\ last.dst = NilProj
    /\ ~last.ptsIn.isNil /\ Len(last.ptsIn.data) > 0
    /\ last.err.msg = "missing/invalid projection"

\* C9: when NewTransformer or NewEPSGTransformer has constructed the source
\* handle and the construction of the destination fails, the source handle's
\* native object and context are destroyed before the error is returned.
C9_TransformerFailureReleasesSource ==
    (last.op \in {"NewTransformer", "NewEPSGTransformer"} /\ ~last.err.isNil
        /\ Len(last.made) = 1) =>
        /\ handles[last.made[1]].p \notin liveObjs
        /\ handles[last.made[1]].ctx \notin liveCtxs

\* the native normalize calls of the last operation, by position
NormCalls == CallsOf("proj_normalize_for_visualization")
FirstNorm == last.calls[CHOOSE k \in NormCalls : \A l \in NormCalls : k <= l]
LastNorm == last.calls[CHOOSE k \in NormCalls : \A l \in NormCalls : l <= k]
SrcCalls == IF PreP.normalized THEN 0 ELSE 1
SrcNormFailed == ~PreP.normalized /\ NormCalls # {} /\ FirstNorm.ret = NULL
DstNormFailed == ~PreDst.normalized /\ NormCalls # {} /\ LastNorm.ret = NULL
LastErrno == last.calls[CHOOSE k \in CallsOf("proj_context_errno") : TRUE].ret

\* C10: Transformer.NormalizeForVisualization passes the source to the
\* native normalize call before the destination; when the source's
\* normalization fails the destination is not passed to the engine and the
\* source's error is returned; when it succeeds (or the source was normalized
\* already) the destination is normalized and its result is returned.
C10_TransformerNormalizeOrder ==
    (last.op = "Transformer.NormalizeForVisualization" /\ last.p # NilProj
        /\ last.outcome = "return") =>
        /\ ~PreP.normalized =>
            /\ NormCalls # {}
            /\ FirstNorm.a = PreP.p /\ FirstNorm.ctx = PreP.ctx
        /\ SrcNormFailed =>
            /\ Cardinality(NormCalls) = 1
            /\ last.err = NewError(ErrnoString(LastErrno))
            /\ handles = last.pre
        /\ ~SrcNormFailed =>
            /\ handles[last.p].normalized
            /\ Cardinality(NormCalls) = SrcCalls + (IF PreDst.normalized THEN 0 ELSE 1)
            /\ ~PreDst.normalized =>
                (LastNorm.a = PreDst.p /\ LastNorm.ctx = PreDst.ctx)
            /\ last.err.isNil <=> ~DstNormFailed
            /\ DstNormFailed => last.err = NewError(ErrnoString(LastErrno))
            /\ handles[last.dst].normalized <=> ~DstNormFailed

\* the source's normalization fails while the destination could be normalized
C10_Witness ==
    /\ last.op = "Transformer.NormalizeForVisualization"
    /\ last.p # NilProj
    /\ PreP.p # NULL /\ PreDst.p # NULL /\ ~PreDst.normalized
    /\ SrcNormFailed
    /\ ~last.err.isNil

\* the crs-to-crs objects the last operation created
CreatedTr ==
    {last.calls[k].ret : k \in CallsOf("proj_create_crs_to_crs_from_pj")} \ {NULL, NA}

\* C11: Transform leaks no native object: the crs-to-crs object it creates is
\* destroyed before it returns, on the failure path as on the success path,
\* so the live native objects after a Transform are those before it.
C11_TransformLeaksNothing ==
    last.op = "Transform" =>
        /\ liveObjs = last.preObjs
        /\ \A tr \in CreatedTr :
              \E k \in CallsOf("proj_destroy") : last.calls[k].a = tr

\* the status the native batch transform of the last operation reported
TransStatus == {last.calls[k].ret : k \in CallsOf("proj_trans_array")}
\* the last operation is a Transform whose batch transform reported failure
TransFailed ==
    /\ last.op = "Transform"
    /\ last.outcome = "return"
    /\ \E r \in TransStatus : r # 0

\* C12: when the native batch transform reports a non-zero status, Transform
\* returns a non-nil error from that call, has called the batch transform
\* exactly once, leaves the buffer as the engine left it (no roll back), and
\* the error text is the engine's message for the context's last error code,
\* or "unknown error" when that code is 0.
C12_TransformStatusError ==
    TransFailed =>
        /\ ~last.err.isNil
        /\ Cardinality(CallsOf("proj_trans_array")) = 1
        /\ Cardinality(CallsOf("proj_context_errno")) = 1
        /\ \A k \in CallsOf("proj_context_errno") :
              /\ last.calls[k].ctx = PreP.ctx
              /\ last.err.msg = IF last.calls[k].ret = 0 THEN "unknown error"
                                ELSE ErrnoString(last.calls[k].ret)
        /\ CreatedTr # {} =>
              /\ Len(last.ptsOut.data) = Len(last.ptsIn.data)
              /\ \A k \in DOMAIN last.ptsIn.data :
                    last.ptsOut.data[k] \in {NativeTrans(last.ptsIn.data[k]), HUGE_VAL}
              /\ last.ptsOut # last.ptsIn
        /\ handles = last.pre

\* the batch transform fails and the context has recorded no error code
C12_Witness ==
    /\ TransFailed
    /\ CreatedTr # {}
    /\ \E k \in CallsOf("proj_context_errno") : last.calls[k].ret = 0
    /\ last.err.msg = "unknown error"
    /\ last.ptsOut # last.ptsIn

\* the two pointers of a handle are both live or both NULL
BothOrNeither(h) ==
    \/ h.p \in liveObjs /\ h.ctx \in liveCtxs
    \/ h.p = NULL /\ h.ctx = NULL

\* C13: in every state between operations (after New, after any outcome of
\* NormalizeForVisualization, after Free, after the finalizer has run free)
\* each handle's context pointer and object pointer are both live or both
\* NULL.
C13_PointersBothOrNeither ==
    /\ \A i \in HandleIds : handles[i].life # "none" => BothOrNeither(handles[i])
    /\ last.op = "finalizer" => BothOrNeither(last.post[last.p])

\* the native create call of the last operation returned NULL
CreateFailed == \E k \in CallsOf("proj_create") : last.calls[k].ret = NULL

\* C14: New and NewEPSG return either a handle and a nil error, or no handle
\* and a non-nil error; when the native create call fails, whatever last-error
\* code the context reports (0 included), there is no handle and the error's
\* message is not empty.
C14_NewHandleOrError ==
    last.op \in {"New", "NewEPSG"} =>
        /\ last.outcome = "return"
        /\ \/ last.ret # NilProj /\ last.err.isNil
           \/ last.ret = NilProj /\ ~last.err.isNil
        /\ CreateFailed =>
              (last.ret = NilProj /\ ~last.err.isNil /\ last.err.msg # "")

\* the context allocation of the last operation returned NULL
ContextFailed == \E k \in CallsOf("proj_context_create") : last.calls[k].ret = NULL

\* C15: when the context allocation in New returns NULL, New returns an
\* error and makes no further native call: neither proj_log_level nor
\* proj_create is called with the NULL context.
C15_NoContextStopsNew ==
    (last.op \in {"New", "NewEPSG"} /\ ContextFailed) =>
        /\ last.ret = NilProj
        /\ ~last.err.isNil
        /\ CallsOf("proj_log_level") = {}
        /\ CallsOf("proj_create") = {}

\* the handles the last operation was not invoked on, and what they own
Others == {i \in HandleIds : i \notin {last.p, last.dst} /\ last.pre[i].life # "none"}
OthersCtxs == {last.pre[i].ctx : i \in Others} \ {NULL}
OthersObjs == {last.pre[i].p : i \in Others} \ {NULL}
\* the context and the objects a recorded native call was handed
CtxArgs(c) == {c.ctx} \ {NA, NULL}
ObjArgs(c) ==
    IF c.fn \in {"proj_destroy", "proj_normalize_for_visualization",
                 "proj_create_crs_to_crs_from_pj"}
    THEN {c.a, c.b} \ {NA, NULL}
    ELSE IF c.fn = "proj_trans_array" THEN {c.a} \ {NA, NULL}
    ELSE {}

\* C16: handles are independent. Every successful New allocates a fresh
\* context and a fresh object; no two handles hold the same context or the
\* same object (also after normalization); and an operation on some handles
\* hands the engine no context or object that another handle owns.
C16_HandlesIndependent ==
    /\ (last.op \in {"New", "NewEPSG"} /\ last.ret # NilProj) =>
          /\ handles[last.ret].ctx \in liveCtxs \ last.preCtxs
          /\ handles[last.ret].p \in liveObjs \ last.preObjs
    /\ \A i, j \in HandleIds :
          (i # j /\ handles[i].life # "none" /\ handles[j].life # "none") =>
              /\ handles[i].ctx # NULL => handles[i].ctx # handles[j].ctx
              /\ handles[i].p # NULL => handles[i].p # handles[j].p
    /\ last.op \in {"NormalizeForVisualization", "Transform", "Free", "finalizer"} =>
          \A k \in DOMAIN last.calls :
              /\ CtxArgs(last.calls[k]) \cap OthersCtxs = {}
              /\ ObjArgs(last.calls[k]) \cap OthersObjs = {}

\* strings.TrimSpace, on the definition strings of the model
TrimSpace(s) ==
    IF s = " +proj=utm +zone=32 " THEN "+proj=utm +zone=32" ELSE s

\* C18: the definition string New hands to the native create call is the
\* caller's string with leading and trailing whitespace removed.
C18_CreateGetsTrimmedString ==
    last.op \in {"New", "NewEPSG"} =>
        \A k \in CallsOf("proj_create") : last.calls[k].s = TrimSpace(last.init)

\* the last operation normalized handle i: a native normalize call was handed
\* its object and returned the object it holds now
NormalizedBy(i) ==
    /\ last.op \in {"NormalizeForVisualization", "Transformer.NormalizeForVisualization"}
    /\ i \in {last.p, last.dst}
    /\ \E k \in NormCalls :
          /\ last.calls[k].a = last.pre[i].p
          /\ last.calls[k].ret = last.post[i].p
          /\ last.calls[k].ret \notin {NULL, NA}

\* C17: normalization is one-directional. An operation (New,
\* NormalizeForVisualization, Transform, Free, the finalizer's free) that
\* finds a handle's normalized flag true leaves it true, and the flag turns
\* true only in an operation whose native normalize call on that handle
\* succeeded; between operations the handles are as the last one left them
\* (a finalized handle is gone).
C17_NormalizedOneWay ==
    /\ \A i \in HandleIds :
          /\ last.pre[i].normalized => last.post[i].normalized
          /\ (~last.pre[i].normalized /\ last.post[i].normalized) => NormalizedBy(i)
    /\ last.op # "finalizer" => handles = last.post
    /\ last.op = "finalizer" => handles = [last.post EXCEPT ![last.p] = NoHandle]

\* a normalized handle is released and keeps its flag
C17_Witness ==
    /\ last.op \in {"Free", "finalizer"}
    /\ PreP.normalized /\ PreP.p # NULL
    /\ last.post[last.p].normalized
    /\ last.post[last.p].p = NULL

\* the native crs-to-crs creation of the last operation returned NULL
TrFailed ==
    /\ last.op = "Transform"
    /\ \E k \in CallsOf("proj_create_crs_to_crs_from_pj") : last.calls[k].ret = NULL

\* C20: when the engine returns NULL for the crs-to-crs transformation of a
\* Transform call, Transform returns a non-nil error, does not call the
\* native batch transform with the NULL transformation, and leaves the batch
\* unchanged.
C20_NullTransformationRejected ==
    TrFailed =>
        /\ last.outcome = "return"
        /\ ~last.err.isNil
        /\ CallsOf("proj_trans_array") = {}
        /\ last.ptsOut = last.ptsIn

\* C19: every SetSearchPaths call replaces the path list and clears the
\* memoization table; the first lookup of a name after a registration
\* resolves to the file in the first registered directory that holds it (so
\* a name that was not found before the registration is found after one
\* that contains it) or to not-found when none does; every later lookup of
\* that name before the next registration returns what the first returned,
\* found or not, without probing the filesystem.
C19_SearchPathRegistry ==
    /\ finder.op = "SetSearchPaths" =>
          (registry.searchPaths = finder.paths /\ registry.memo = {})
    /\ finder.op = "lookup" =>
          /\ finder.ret = Get(finder.first, finder.name)
          /\ finder.repeat => finder.probed = << >>
          /\ ~finder.repeat =>
                \/ /\ finder.ret = NotFound
                   /\ \A i \in DOMAIN registry.searchPaths :
                         FullPath(registry.searchPaths[i], finder.name) \notin files
                   /\ finder.probed = registry.searchPaths
                \/ \E i \in DOMAIN registry.searchPaths :
                      /\ finder.ret = FullPath(registry.searchPaths[i], finder.name)
                      /\ finder.ret \in files
                      /\ \A j \in 1..(i - 1) :
                            FullPath(registry.searchPaths[j], finder.name) \notin files
                      /\ finder.probed = SubSeq(registry.searchPaths, 1, i)

\* a name that was not found before the registration is found after it
C19_Witness ==
    /\ finder.op = "lookup"
    /\ finder.name \in finder.missed
    /\ ~finder.repeat
    /\ finder.ret # NotFound

\* C21: the finalizer never destroys a handle's object or context while a
\* native call that was given it is in progress; in particular not the
\* destination's object during Transform, whose handle Transform does not
\* reference again after reading the pointer.
C21_FinalizerWaitsForNativeCall ==
    inflight.pc = "native" => inflight.destroyed = {}

====
